---- MODULE Spec2Model ----
(***************************************************************************)
(* Model of src/bot.py: the LINK / VERIFY challenge-response handlers, the *)
(* in-memory session map `pending` and the background cleanup loop.        *)
(*                                                                         *)
(* Strings are sequences of one-character strings, so that formatting,     *)
(* slicing and digit extraction are computed character by character.       *)
(* Time is the integer clock `clock`; every synchronous stretch of handler *)
(* code (no await in it) is one atomic action, as under asyncio.           *)
(***************************************************************************)
EXTENDS Integers, Sequences, FiniteSets, TLC

\* ------------------------------------------------------------------------
\* Configuration (environment-sourced in the program) and model bounds
\* ------------------------------------------------------------------------
\* TTL_SECONDS, COOLDOWN_SECONDS and MAX_ATTEMPTS are read from the
\* environment (defaults 300, 30 and 3); the model instantiates them with
\* small values that keep their order: COOLDOWN_SECONDS < TTL_SECONDS.
TTL_SECONDS == 3
COOLDOWN_SECONDS == 2
MAX_ATTEMPTS == 2
\* the pause of the cleanup loop, asyncio.sleep(30), on the same scale
SWEEP_SECONDS == 2

\* the clock runs from 0 to MaxTime
MaxTime == 4
\* VERIFY handlers that may be suspended in the grant call at the same time
MaxTasks == 2
\* LINK and VERIFY interactions delivered over a behaviour
MaxOps == 4

Users == {"u1", "u2"}
VerifyEntries == {"slash", "modal"}

\* ------------------------------------------------------------------------
\* Code generation
\* ------------------------------------------------------------------------
DigitChars == <<"0", "1", "2", "3", "4", "5", "6", "7", "8", "9">>
Digits == {DigitChars[i] : i \in 1..10}

RECURSIVE Pow10(_)
Pow10(k) == IF k = 0 THEN 1 ELSE 10 * Pow10(k - 1)

\* f"{n:0wd}" for 0 <= n < 10^w
ZeroPad(n, w) == [i \in 1..w |-> DigitChars[((n \div Pow10(w - i)) % 10) + 1]]

\* values secrets.randbelow(1_000_000) returns in the model
NonceValues == {123, 123456}

\* first four bytes of HMAC-SHA256(SECRET_KEY, msg) for SECRET_KEY = "k"
Digest4(msg) ==
    CASE msg = <<"C", "H", "A", "L", "|", "0", "0", "0", "1", "2", "3">> -> <<64, 16, 117, 57>>
      [] msg = <<"R", "E", "S", "P", "|", "0", "0", "0", "1", "2", "3">> -> <<16, 74, 100, 189>>
      [] msg = <<"C", "H", "A", "L", "|", "1", "2", "3", "4", "5", "6">> -> <<104, 95, 234, 134>>
      [] msg = <<"R", "E", "S", "P", "|", "1", "2", "3", "4", "5", "6">> -> <<232, 36, 176, 227>>
      [] OTHER -> <<0, 0, 0, 0>>

\* int.from_bytes(digest[:4], "big") % m, reduced at every byte
hmac_u32_mod(msg, m) ==
    LET d == Digest4(msg)
    IN  ((((((d[1] % m) * 256 + d[2]) % m) * 256 + d[3]) % m) * 256 + d[4]) % m

make_access_key(nonce6) ==
    nonce6 \o ZeroPad(hmac_u32_mod(<<"C", "H", "A", "L", "|">> \o nonce6, 100), 2)

make_response_code(nonce6) ==
    ZeroPad(hmac_u32_mod(<<"R", "E", "S", "P", "|">> \o nonce6, 1000000), 6)

format_access(access8) ==
    SubSeq(access8, 1, 4) \o <<" ">> \o SubSeq(access8, 5, Len(access8))

\* variant: expiry is noticed one second late
is_expired_late(created, t) == (t - created) > TTL_SECONDS + 1

is_expired(created, t) == (t - created) > TTL_SECONDS

\* a decimal digit outside ASCII (ARABIC-INDIC DIGIT THREE), one character
OtherDigits == {"U+0663"}

\* the characters the pattern \D does not match: in a str pattern \d is
\* every Unicode decimal digit
IsDigit(c) == c \in Digits \cup OtherDigits

\* variant: of more than six digits the first six are returned
extract_6digits_first(s) ==
    LET digits == SelectSeq(s, IsDigit)
    IN  IF Len(digits) >= 6 THEN SubSeq(digits, 1, 6) ELSE <<>>

extract_6digits(s) ==
    LET digits == SelectSeq(s, IsDigit)
    IN  IF Len(digits) = 6 THEN digits ELSE <<>>

\* ------------------------------------------------------------------------
\* Inputs a user may type into VERIFY
\* ------------------------------------------------------------------------
\* the code as the game shows it ("B-123456"), the bare digits, and two
\* malformed texts (too few digits, too many digits)
Inputs ==
    {make_response_code(ZeroPad(123, 6)),
     <<"B", "-">> \o make_response_code(ZeroPad(123456, 6)),
     <<"1", "2", "-", "3", "4">>,
     <<"B", "-", "1", "2", "3", "4", "5", "6", "7">>}

\* ------------------------------------------------------------------------
\* State
\* ------------------------------------------------------------------------
VARIABLES
    ops,        \* interactions delivered so far
    clock,      \* time.time()
    pending,    \* pending: user id -> {"nonce", "created", "attempts", "cooldown"}
    roles,      \* users that hold the authorized role on the server
    tasks,      \* VERIFY handlers suspended in the grant call
    wake,       \* the time at which the sleep of cleanup_loop ends
    text,       \* the argument of a call of extract_6digits
    result,     \* what that call returned, once it has returned
    last        \* the reply sent by the step just taken, if any

vars == <<ops, clock, pending, roles, tasks, wake, text, result, last>>

TaskIds == 1..MaxTasks
IdleTask == [pc |-> "idle", user |-> "-"]

Said(op, u, msg, key) == [op |-> op, user |-> u, msg |-> msg, key |-> key]
\* a step that sends no reply
Silent == Said("-", "-", "-", <<>>)

HasSession(u) == u \in DOMAIN pending

\* variant: the entry is left in the dictionary
Pop_keep(p, u) == p

\* pending.pop(uid, None)
Pop(p, u) == [v \in (DOMAIN p) \ {u} |-> p[v]]

\* variant: one dictionary is shared by every stored user
Put_shared(p, u, st) == [v \in (DOMAIN p) \cup {u} |-> st]

\* pending[uid] = st
Put(p, u, st) == [v \in (DOMAIN p) \cup {u} |-> IF v = u THEN st ELSE p[v]]

\* the call has not returned
NoResult == [done |-> FALSE, value |-> <<>>]

Init ==
    /\ ops = 0
    /\ clock = 0
    /\ pending = <<>>
    /\ roles = {}
    /\ tasks = [t \in TaskIds |-> IdleTask]
    /\ wake = 0
    /\ text = <<>>
    /\ result = NoResult
    /\ last = Silent

\* ------------------------------------------------------------------------
\* Environment
\* ------------------------------------------------------------------------
\* time passes, up to limit
Advance(limit) ==
    /\ clock < limit
    /\ clock' = clock + 1
    /\ last' = Silent
    /\ UNCHANGED <<ops, pending, roles, tasks, wake, text, result>>

Tick == Advance(MaxTime)

\* ------------------------------------------------------------------------
\* Session helpers (the dictionary operations of the handlers)
\* ------------------------------------------------------------------------
\* variant: the cooldown is never looked at
Throttled_never(st, now) == FALSE

\* st.get("cooldown", 0) > now
Throttled(st, now) == st.cooldown > now

\* variant: the cap test lets one more attempt through
Exhausted_late(st) == st.attempts > MAX_ATTEMPTS

\* st["attempts"] >= MAX_ATTEMPTS
Exhausted(st) == st.attempts >= MAX_ATTEMPTS

\* variant: the resend also restarts the TTL countdown
Resumed_restart(st, now) == [st EXCEPT !.cooldown = now + COOLDOWN_SECONDS, !.created = now]

\* variant: the resend writes back attempts as they were at creation
Resumed_stale(st, now) == [st EXCEPT !.cooldown = now + COOLDOWN_SECONDS, !.attempts = 0]

\* st["cooldown"] = now + COOLDOWN_SECONDS
Resumed(st, now) == [st EXCEPT !.cooldown = now + COOLDOWN_SECONDS]

\* the dictionary stored for a new session
NewSession(nonce, now) ==
    [nonce |-> nonce, created |-> now, attempts |-> 0, cooldown |-> now + COOLDOWN_SECONDS]

\* variant: the failure is not counted
Failed_free(st) == st

\* st["attempts"] += 1
Failed(st) == [st EXCEPT !.attempts = @ + 1]

\* what a later call of time.time() in the same handler may return
ReadClock(t) == {t2 \in {t, t + 1} : t2 <= MaxTime}

\* ------------------------------------------------------------------------
\* LINK
\* ------------------------------------------------------------------------
handle_evacom_link(u, inChannel, roleOk) ==
    LET now == clock
    IN  IF ~inChannel
        THEN /\ last' = Said("link", u, "guard", <<>>)
             /\ UNCHANGED <<clock, pending, roles, tasks>>
        ELSE IF ~roleOk
        THEN /\ last' = Said("link", u, "misconfigured", <<>>)
             /\ UNCHANGED <<clock, pending, roles, tasks>>
        ELSE IF u \in roles
        THEN /\ last' = Said("link", u, "already", <<>>)
             /\ UNCHANGED <<clock, pending, roles, tasks>>
        ELSE IF HasSession(u) /\ Throttled(pending[u], now)
        THEN /\ last' = Said("link", u, "throttle", <<>>)
             /\ UNCHANGED <<clock, pending, roles, tasks>>
        ELSE IF HasSession(u)
        THEN \E t2 \in ReadClock(now) :
             /\ clock' = t2
             /\ IF ~is_expired(pending[u].created, t2)
                THEN /\ pending' = Put(pending, u, Resumed(pending[u], now))
                     /\ last' = Said("link", u, "key_resumed",
                                     format_access(make_access_key(pending[u].nonce)))
                ELSE \E n \in NonceValues :
                     /\ pending' = Put(pending, u, NewSession(ZeroPad(n, 6), now))
                     /\ last' = Said("link", u, "key_new",
                                     format_access(make_access_key(ZeroPad(n, 6))))
             /\ UNCHANGED <<roles, tasks>>
        ELSE \E n \in NonceValues :
             /\ pending' = Put(pending, u, NewSession(ZeroPad(n, 6), now))
             /\ last' = Said("link", u, "key_new",
                             format_access(make_access_key(ZeroPad(n, 6))))
             /\ UNCHANGED <<clock, roles, tasks>>

\* ------------------------------------------------------------------------
\* VERIFY
\* ------------------------------------------------------------------------
FreeTasks == {t \in TaskIds : tasks[t].pc = "idle"}

\* the handler from its start to its first suspension or its return
handle_evacom_verify(u, code, inChannel, roleOk) ==
    IF ~inChannel
    THEN /\ last' = Said("verify", u, "guard", <<>>)
         /\ UNCHANGED <<clock, pending, roles, tasks>>
    ELSE IF ~HasSession(u)
    THEN /\ last' = Said("verify", u, "no_session", <<>>)
         /\ UNCHANGED <<clock, pending, roles, tasks>>
    ELSE IF is_expired(pending[u].created, clock)
    THEN /\ pending' = Pop(pending, u)
         /\ last' = Said("verify", u, "expired", <<>>)
         /\ UNCHANGED <<clock, roles, tasks>>
    ELSE IF Exhausted(pending[u])
    THEN /\ pending' = Pop(pending, u)
         /\ last' = Said("verify", u, "too_many", <<>>)
         /\ UNCHANGED <<clock, roles, tasks>>
    ELSE IF extract_6digits(code) = <<>>
    THEN /\ pending' = Put(pending, u, Failed(pending[u]))
         /\ last' = Said("verify", u, "invalid_format", <<>>)
         /\ UNCHANGED <<clock, roles, tasks>>
    ELSE IF extract_6digits(code) # make_response_code(pending[u].nonce)
    THEN /\ pending' = Put(pending, u, Failed(pending[u]))
         /\ last' = Said("verify", u, "wrong_code", <<>>)
         /\ UNCHANGED <<clock, roles, tasks>>
    ELSE IF ~roleOk
    THEN /\ last' = Said("verify", u, "misconfigured", <<>>)
         /\ UNCHANGED <<clock, pending, roles, tasks>>
    ELSE /\ FreeTasks # {}
         /\ LET t == CHOOSE x \in FreeTasks : \A y \in FreeTasks : x <= y
            IN  tasks' = [tasks EXCEPT ![t] =
                            [pc |-> "add_roles", user |-> u]]
         /\ last' = Said("verify", u, "granting", <<>>)
         /\ UNCHANGED <<clock, pending, roles>>

\* the server applies member.add_roles(role) of a suspended handler
add_roles_applied(t) ==
    /\ tasks[t].pc = "add_roles"
    /\ roles' = roles \cup {tasks[t].user}
    /\ tasks' = [tasks EXCEPT ![t].pc = "granted"]
    /\ last' = Silent
    /\ UNCHANGED <<ops, clock, pending, wake, text, result>>

\* variant: a failed grant call is counted as a failed attempt
add_roles_raised_counted(t, entry) ==
    /\ tasks[t].pc \in {"add_roles", "granted"}
    /\ tasks' = [tasks EXCEPT ![t] = IdleTask]
    /\ pending' = IF tasks[t].user \in DOMAIN pending
                  THEN [pending EXCEPT ![tasks[t].user].attempts = @ + 1]
                  ELSE pending
    /\ last' = Said("verify", tasks[t].user,
                    IF entry = "modal" THEN "internal_error" ELSE "raised", <<>>)
    /\ UNCHANGED <<ops, clock, roles, wake, text, result>>

\* await member.add_roles(...) raises: the handler ends without reaching
\* pending.pop; the modal catches the exception, the slash command does not
add_roles_raised(t, entry) ==
    /\ tasks[t].pc \in {"add_roles", "granted"}
    /\ tasks' = [tasks EXCEPT ![t] = IdleTask]
    /\ last' = Said("verify", tasks[t].user,
                    IF entry = "modal" THEN "internal_error" ELSE "raised", <<>>)
    /\ UNCHANGED <<ops, clock, pending, roles, wake, text, result>>

\* variant: the session is kept after the grant
handle_evacom_verify_granted_kept(t) ==
    /\ tasks[t].pc = "granted"
    /\ tasks' = [tasks EXCEPT ![t] = IdleTask]
    /\ last' = Said("verify", tasks[t].user, "authorized", <<>>)
    /\ UNCHANGED <<ops, clock, pending, roles, wake, text, result>>

\* await member.add_roles(...) returns: pending.pop and the final reply
handle_evacom_verify_granted(t) ==
    /\ tasks[t].pc = "granted"
    /\ pending' = Pop(pending, tasks[t].user)
    /\ tasks' = [tasks EXCEPT ![t] = IdleTask]
    /\ last' = Said("verify", tasks[t].user, "authorized", <<>>)
    /\ UNCHANGED <<ops, clock, roles, wake, text, result>>

\* ------------------------------------------------------------------------
\* Reaper: one pass of cleanup_loop
\* ------------------------------------------------------------------------
\* variant: a session whose age equals TTL_SECONDS is taken for expired
Swept_early(p, now) ==
    [v \in {uid \in DOMAIN p : (now - p[uid].created) < TTL_SECONDS} |-> p[v]]

\* the dictionary after the pass: expired_users are popped
Swept(p, now) ==
    LET expired_users == {uid \in DOMAIN p : (now - p[uid].created) > TTL_SECONDS}
    IN  [v \in (DOMAIN p) \ expired_users |-> p[v]]

\* one pass of the loop body: now is read once and the expired users popped
cleanup_pass ==
    LET now == clock
    IN  /\ pending' = Swept(pending, now)
        /\ last' = Said("sweep", "-",
                        IF DOMAIN Swept(pending, now) = DOMAIN pending THEN "kept" ELSE "removed",
                        <<>>)
        /\ UNCHANGED <<ops, clock, roles, tasks>>

\* a pass taken at an arbitrary moment (the sleep is not timed)
cleanup_loop == cleanup_pass /\ UNCHANGED <<wake, text, result>>

\* an interaction is delivered to a handler
Deliver == ops < MaxOps /\ ops' = ops + 1

Link == \E u \in Users, g \in BOOLEAN, r \in BOOLEAN :
            Deliver /\ handle_evacom_link(u, g, r) /\ UNCHANGED <<wake, text, result>>
Verify == \E u \in Users, c \in Inputs, g \in BOOLEAN, r \in BOOLEAN :
              Deliver /\ handle_evacom_verify(u, c, g, r) /\ UNCHANGED <<wake, text, result>>
AddRolesApplied == \E t \in TaskIds : add_roles_applied(t)
AddRolesRaised == \E t \in TaskIds, e \in VerifyEntries : add_roles_raised(t, e)
VerifyGranted == \E t \in TaskIds : handle_evacom_verify_granted(t)

Next ==
    \/ Tick
    \/ Link
    \/ Verify
    \/ AddRolesApplied
    \/ AddRolesRaised
    \/ VerifyGranted
    \/ cleanup_loop

Spec == Init /\ [][Next]_vars

\* ------------------------------------------------------------------------
\* The reaper on its timer
\* ------------------------------------------------------------------------
\* Interactions arrive up to MaxTime; the clock runs on until the last
\* session created by then has expired and a pass has come due.
Horizon == MaxTime + TTL_SECONDS + SWEEP_SECONDS

\* variant: the loop stops after its first pass
cleanup_loop_timed_once ==
    /\ clock >= wake
    /\ UNCHANGED <<text, result>>
    /\ wake = 0
    /\ cleanup_pass
    /\ wake' = clock + SWEEP_SECONDS

\* the sleep has ended: one pass, then await asyncio.sleep(30)
cleanup_loop_timed ==
    /\ clock >= wake
    /\ UNCHANGED <<text, result>>
    /\ cleanup_pass
    /\ wake' = clock + SWEEP_SECONDS

\* time does not pass the end of the sleep before the pass has run
TickTimed == clock < wake /\ Advance(Horizon)

LinkTimed == clock <= MaxTime /\ Link /\ clock' <= wake
VerifyTimed == clock <= MaxTime /\ Verify

NextTimed ==
    \/ TickTimed
    \/ LinkTimed
    \/ VerifyTimed
    \/ AddRolesApplied
    \/ AddRolesRaised
    \/ VerifyGranted
    \/ cleanup_loop_timed

\* time advances and the loop task is resumed when its sleep has ended
SpecReaper ==
    /\ Init
    /\ [][NextTimed]_vars
    /\ WF_vars(TickTimed)
    /\ WF_vars(cleanup_loop_timed)

\* ------------------------------------------------------------------------
\* Properties
\* ------------------------------------------------------------------------
\* the step starts the grant call (member.add_roles) of a handler of u
GrantIssued(u) ==
    \E t \in TaskIds : tasks[t].pc = "idle" /\ tasks'[t] = [pc |-> "add_roles", user |-> u]

\* the step is a LINK interaction of u
LinkStep(u) == ops' = ops + 1 /\ last'.op = "link" /\ last'.user = u

\* the step is a VERIFY interaction of u that passed the channel guard
VerifyStep(u) ==
    ops' = ops + 1 /\ last'.op = "verify" /\ last'.user = u /\ last'.msg # "guard"

\* the step resumes a handler of u whose grant call returned
AuthorizedStep(u) ==
    /\ last' = Said("verify", u, "authorized", <<>>)
    /\ \E t \in TaskIds : tasks[t] = [pc |-> "granted", user |-> u] /\ tasks'[t] = IdleTask

\* the step ends a handler of u whose grant call raised
GrantFailedStep(u) ==
    /\ last'.op = "verify" /\ last'.user = u /\ last'.msg \in {"internal_error", "raised"}
    /\ \E t \in TaskIds : tasks[t].pc # "idle" /\ tasks[t].user = u /\ tasks'[t] = IdleTask

\* C1: a grant is issued only by a VERIFY of a user whose stored session is,
\* at that moment, not expired (now - created <= TTL_SECONDS) and below
\* MAX_ATTEMPTS, and only when the six digits extracted from the input equal
\* the response code derived from that session's nonce; the role is gained
\* only through such a grant call, on no other path.
C1_GrantOnlyOnLiveMatch ==
    [][ /\ \A u \in Users : GrantIssued(u) =>
             /\ last' = Said("verify", u, "granting", <<>>)
             /\ ops' = ops + 1
             /\ u \in DOMAIN pending
             /\ (clock - pending[u].created) <= TTL_SECONDS
             /\ pending[u].attempts < MAX_ATTEMPTS
             /\ \A c \in Inputs, g \in BOOLEAN, r \in BOOLEAN :
                    handle_evacom_verify(u, c, g, r) =>
                        /\ Len(extract_6digits(c)) = 6
                        /\ extract_6digits(c) = make_response_code(pending[u].nonce)
        /\ \A t \in TaskIds :
             /\ (tasks'[t].pc = "add_roles" /\ tasks[t].pc # "add_roles") => GrantIssued(tasks'[t].user)
             /\ (tasks'[t].pc = "granted" /\ tasks[t].pc # "granted") =>
                    tasks[t] = [pc |-> "add_roles", user |-> tasks'[t].user]
        /\ \A u \in roles' \ roles :
             \E t \in TaskIds : tasks[t] = [pc |-> "add_roles", user |-> u] /\ tasks'[t].pc = "granted"
      ]_vars

\* a grant call has just been issued for a user whose session is stored
C1_Witness ==
    /\ last.op = "verify" /\ last.msg = "granting"
    /\ \E t \in TaskIds : tasks[t] = [pc |-> "add_roles", user |-> last.user]
    /\ last.user \in DOMAIN pending

\* C2: in every reachable state every stored session has
\* 0 <= attempts <= MAX_ATTEMPTS.
C2_AttemptsWithinCap ==
    \A u \in DOMAIN pending : pending[u].attempts >= 0 /\ pending[u].attempts <= MAX_ATTEMPTS

\* a stored session has reached the cap
C2_Witness ==
    \E u \in DOMAIN pending : pending[u].attempts = MAX_ATTEMPTS

\* C3 (as claimed): at the end of a failed VERIFY (invalid format or wrong
\* code) the user's session is not stored with attempts >= MAX_ATTEMPTS: the
\* failure that reaches the cap removes the session.
C3_RemovedWhenCapReached ==
    (last.op = "verify" /\ last.msg \in {"invalid_format", "wrong_code"}) =>
        ~(last.user \in DOMAIN pending /\ pending[last.user].attempts >= MAX_ATTEMPTS)

\* C4 (as claimed): a VERIFY on a stored session that has accumulated
\* MAX_ATTEMPTS failures reports "no active session" or "too many attempts",
\* issues no grant and leaves no session stored.
C4_ExhaustedVerifyReports ==
    [][ \A u \in Users :
          (VerifyStep(u) /\ u \in DOMAIN pending /\ pending[u].attempts >= MAX_ATTEMPTS) =>
              /\ last'.msg \in {"no_session", "too_many"}
              /\ ~GrantIssued(u)
              /\ u \notin DOMAIN pending'
      ]_vars

C6_GrantFailureKeepsSession ==
    [][ \A u \in Users :
          ((VerifyStep(u) /\ last'.msg = "granting") \/ GrantFailedStep(u)) =>
              pending' = pending
      ]_vars

\* the grant call failed and the session is still stored, live and below the
\* cap, so that the same code can be submitted again
C6_Witness ==
    /\ last.op = "verify" /\ last.msg \in {"internal_error", "raised"}
    /\ last.user \in DOMAIN pending
    /\ (clock - pending[last.user].created) <= TTL_SECONDS
    /\ pending[last.user].attempts < MAX_ATTEMPTS

\* C7: a LINK that arrives while the user's stored cooldown is greater than
\* now leaves the whole store unchanged (cooldown included); its reply is the
\* throttle message unless an earlier check of the handler (channel guard,
\* role not found, already authorized) has answered; and the throttle message
\* is sent only in that case.
C7_ThrottledLinkChangesNothing ==
    [][ \A u \in Users :
          /\ (LinkStep(u) /\ u \in DOMAIN pending /\ pending[u].cooldown > clock) =>
                /\ pending' = pending
                /\ last'.msg \in {"guard", "misconfigured", "already", "throttle"}
                /\ (last'.msg \in {"guard", "misconfigured"} \/ u \in roles \/ last'.msg = "throttle")
                /\ (last'.msg = "already" => u \in roles)
          /\ (LinkStep(u) /\ last'.msg = "throttle") =>
                (u \in DOMAIN pending /\ pending[u].cooldown > clock /\ pending' = pending)
      ]_vars

\* a LINK has just been throttled
C7_Witness ==
    /\ last.op = "link" /\ last.msg = "throttle"
    /\ last.user \in DOMAIN pending
    /\ pending[last.user].cooldown > clock

\* C8: a resuming LINK changes only cooldown (to now + COOLDOWN_SECONDS) of
\* the user's session and shows the access key of its nonce; every key reply
\* shows the key of the session then stored; and the nonce and created of a
\* stored session change only when a LINK replaces an expired session. So all
\* key replies for one session carry the same access key, and neither the TTL
\* countdown nor attempts is reset.
C8_ResumeReusesNonce ==
    [][ \A u \in Users :
          /\ (LinkStep(u) /\ last'.msg = "key_resumed") =>
                /\ u \in DOMAIN pending
                /\ pending' = [pending EXCEPT ![u].cooldown = clock + COOLDOWN_SECONDS]
                /\ last'.key = format_access(make_access_key(pending[u].nonce))
          /\ (LinkStep(u) /\ last'.msg \in {"key_resumed", "key_new"}) =>
                /\ u \in DOMAIN pending'
                /\ last'.key = format_access(make_access_key(pending'[u].nonce))
          /\ (u \in DOMAIN pending /\ u \in DOMAIN pending'
                /\ (pending'[u].nonce # pending[u].nonce
                      \/ pending'[u].created # pending[u].created
                      \/ pending'[u].attempts < pending[u].attempts)) =>
                /\ LinkStep(u) /\ last'.msg = "key_new"
                /\ (clock' - pending[u].created) > TTL_SECONDS
      ]_vars

\* a LINK has just resumed a session that already counts a failed attempt
C8_Witness ==
    /\ last.op = "link" /\ last.msg = "key_resumed"
    /\ last.user \in DOMAIN pending
    /\ pending[last.user].attempts > 0
    /\ pending[last.user].created < clock

\* C9 (as claimed): a LINK (role resolvable) of a user who does not hold the
\* role and has no live session (none stored, or one with
\* now - created > TTL_SECONDS) creates a session with attempts = 0,
\* created = now, cooldown = now + COOLDOWN_SECONDS and replies with its access
\* key; a LINK is throttled only when a live session is being resumed.
C9_LinkWithoutLiveSessionCreates ==
    [][ \A u \in Users :
          /\ (LinkStep(u) /\ last'.msg \notin {"guard", "misconfigured"} /\ u \notin roles
                /\ (u \notin DOMAIN pending \/ (clock - pending[u].created) > TTL_SECONDS)) =>
                /\ last'.msg = "key_new"
                /\ u \in DOMAIN pending'
                /\ pending'[u].attempts = 0
                /\ pending'[u].created = clock
                /\ pending'[u].cooldown = clock + COOLDOWN_SECONDS
                /\ last'.key = format_access(make_access_key(pending'[u].nonce))
          /\ (LinkStep(u) /\ last'.msg = "throttle") =>
                (u \in DOMAIN pending /\ (clock - pending[u].created) <= TTL_SECONDS)
      ]_vars

\* C10: a VERIFY evaluated later than created + TTL_SECONDS on a stored
\* session removes that session and reports "session expired" for every
\* input and every count of attempts; it issues no grant and changes no other
\* session; "session expired" is reported in no other case.
C10_ExpiredVerifyRemoves ==
    [][ \A u \in Users :
          /\ (VerifyStep(u) /\ u \in DOMAIN pending /\ clock > pending[u].created + TTL_SECONDS) =>
                /\ last'.msg = "expired"
                /\ u \notin DOMAIN pending'
                /\ \A v \in Users \ {u} :
                      /\ (v \in DOMAIN pending') = (v \in DOMAIN pending)
                      /\ v \in DOMAIN pending => pending'[v] = pending[v]
                /\ ~GrantIssued(u)
                /\ UNCHANGED <<roles, tasks>>
          /\ (VerifyStep(u) /\ last'.msg = "expired") =>
                (u \in DOMAIN pending /\ clock > pending[u].created + TTL_SECONDS)
      ]_vars

\* a VERIFY has just found the user's session expired and removed it
C10_Witness ==
    /\ last.op = "verify" /\ last.msg = "expired"
    /\ last.user \notin DOMAIN pending

\* C11: one pass of the reaper, with its single value of now, removes exactly
\* the sessions with now - created > TTL_SECONDS and leaves every other
\* session stored and unchanged, whatever the handlers did before the pass;
\* it never deletes a live session and touches nothing else.
C11_SweepRemovesExactlyExpired ==
    [][ last'.op = "sweep" =>
          /\ \A u \in Users :
                /\ (u \in DOMAIN pending') =
                      (u \in DOMAIN pending /\ (clock - pending[u].created) <= TTL_SECONDS)
                /\ u \in DOMAIN pending' => pending'[u] = pending[u]
          /\ UNCHANGED <<ops, clock, roles, tasks>>
      ]_vars

\* a pass has just removed an expired session and left another one stored
C11_Witness ==
    /\ last.op = "sweep" /\ last.msg = "removed"
    /\ DOMAIN pending # {}

\* ------------------------------------------------------------------------
\* extract_6digits on its own
\* ------------------------------------------------------------------------
\* longest text drawn from the alphabet
MaxText == 7
Alphabet == {"1", "2", "-", "U+0663"}

\* the texts of the documented examples
Examples ==
    {<<"B", "-", "1", "2", "3", "4", "5", "6">>,
     <<"1", " ", "2", " ", "3", " ", "4", " ", "5", " ", "6">>,
     <<"1", "2", "-", "3", "4">>}

Texts == Examples \cup UNION {[1..n -> Alphabet] : n \in 0..MaxText}

InitExtract ==
    /\ ops = 0
    /\ clock = 0
    /\ pending = <<>>
    /\ roles = {}
    /\ tasks = [t \in TaskIds |-> IdleTask]
    /\ wake = 0
    /\ last = Silent
    /\ text \in Texts
    /\ result = NoResult

\* the call extract_6digits(text) returns
Extract ==
    /\ ~result.done
    /\ result' = [done |-> TRUE, value |-> extract_6digits(text)]
    /\ UNCHANGED <<ops, clock, pending, roles, tasks, wake, text, last>>

NextExtract == Extract

SpecExtract == InitExtract /\ [][NextExtract]_vars

\* the digit characters of s, in order
RECURSIVE DigitsOf(_)
DigitsOf(s) ==
    IF s = <<>> THEN <<>>
    ELSE (IF IsDigit(Head(s)) THEN <<Head(s)>> ELSE <<>>) \o DigitsOf(Tail(s))

\* C12: with time advancing and the reaper resumed when its sleep ends, every
\* stored session is eventually absent from the store, whether or not its
\* user sends anything more; and no session is stored later than
\* created + TTL_SECONDS + SWEEP_SECONDS, one sweep interval after it expired.
C12_ReaperRemovesAbandoned ==
    /\ \A u \in Users : [](u \in DOMAIN pending => <>(u \notin DOMAIN pending))
    /\ [](\A u \in DOMAIN pending :
             (clock - pending[u].created) <= TTL_SECONDS + SWEEP_SECONDS)

\* a timed pass has just removed an expired session
C12_Witness ==
    /\ last.op = "sweep" /\ last.msg = "removed"
    /\ wake = clock + SWEEP_SECONDS

\* C13: a LINK or VERIFY delivered while the authorized role cannot be
\* resolved replies "misconfigured" and mutates nothing: for every VERIFY
\* input, wrong and malformed codes included, the stored session keeps all
\* its fields and is not removed.
C13_UnresolvedRoleMutatesNothing ==
    [][ \A u \in Users :
          /\ (Deliver /\ handle_evacom_link(u, TRUE, FALSE)) =>
                 /\ last'.msg = "misconfigured"
                 /\ UNCHANGED <<pending, roles, tasks>>
          /\ \A c \in Inputs :
                 (HasSession(u) /\ Deliver /\ handle_evacom_verify(u, c, TRUE, FALSE)) =>
                     /\ last'.msg = "misconfigured"
                     /\ UNCHANGED <<pending, roles, tasks>>
      ]_vars

\* C14: a VERIFY on a stored session that is not expired and below
\* MAX_ATTEMPTS, whose input has not exactly six digits or whose six digits
\* differ from the expected response code, adds exactly 1 to that session's
\* attempts and changes nothing else (nonce, created, cooldown, the other
\* sessions, the roles); the malformed input is counted like the wrong code.
C14_FailedVerifyCountsOne ==
    [][ \A u \in Users :
          ( /\ VerifyStep(u)
            /\ HasSession(u)
            /\ (clock - pending[u].created) <= TTL_SECONDS
            /\ pending[u].attempts < MAX_ATTEMPTS )
          => \A c \in Inputs :
               LET digits == SelectSeq(c, IsDigit)
               IN  ( /\ \/ Len(digits) # 6
                        \/ digits # make_response_code(pending[u].nonce)
                     /\ \E r \in BOOLEAN : handle_evacom_verify(u, c, TRUE, r) )
                   => /\ pending' = [pending EXCEPT ![u].attempts = @ + 1]
                      /\ last' = Said("verify", u,
                                      IF Len(digits) = 6
                                      THEN "wrong_code" ELSE "invalid_format", <<>>)
                      /\ UNCHANGED <<clock, roles, tasks>>
      ]_vars

\* a first failed VERIFY has just been counted on a stored session
C14_Witness ==
    /\ last.op = "verify" /\ last.msg \in {"invalid_format", "wrong_code"}
    /\ last.user \in DOMAIN pending
    /\ pending[last.user].attempts = 1

\* C15: no update of a user's session is lost, whatever the order in which
\* the handlers of that user run. Every failed VERIFY adds 1 to the attempts
\* stored at that moment (so k of them on attempts a leave a + k) and keeps
\* cooldown; every resuming LINK sets cooldown and keeps attempts; and a
\* session that stays stored is changed by no other step than these and a
\* LINK that replaces it: a handler resumed after its grant call writes no
\* field of it.
C15_NoLostUpdates ==
    [][ \A u \in Users :
          /\ (VerifyStep(u) /\ last'.msg \in {"invalid_format", "wrong_code"}) =>
                /\ HasSession(u)
                /\ pending' = [pending EXCEPT ![u].attempts = @ + 1]
          /\ (LinkStep(u) /\ last'.msg = "key_resumed") =>
                /\ HasSession(u)
                /\ pending' = [pending EXCEPT ![u].cooldown = clock + COOLDOWN_SECONDS]
          /\ (HasSession(u) /\ u \in DOMAIN pending' /\ pending'[u] # pending[u]) =>
                \/ VerifyStep(u) /\ last'.msg \in {"invalid_format", "wrong_code"}
                \/ LinkStep(u) /\ last'.msg \in {"key_resumed", "key_new"}
      ]_vars

\* two failed VERIFYs and a LINK refresh between or after them are all
\* present in the stored session
C15_Witness ==
    \E u \in DOMAIN pending :
        /\ pending[u].attempts = MAX_ATTEMPTS
        /\ pending[u].cooldown > pending[u].created + COOLDOWN_SECONDS
        /\ last.user = u /\ last.msg \in {"invalid_format", "wrong_code"}

\* C16: no step taken on behalf of one user changes the session of another:
\* the session of v (its existence, nonce, created, attempts, cooldown)
\* changes only in a LINK or VERIFY step of v, in the resumption of a handler
\* of v, or when the reaper removes it as expired. And while a grant call of
\* u is pending, a LINK of v and a VERIFY of v with any input can be
\* delivered and run to their reply (as long as the delivery budget and the
\* handler slots of the model are not used up).
C16_UsersDoNotInterfere ==
    /\ [][ \A v \in Users :
              ( \/ (v \in DOMAIN pending) # (v \in DOMAIN pending')
                \/ (v \in DOMAIN pending /\ v \in DOMAIN pending' /\ pending'[v] # pending[v]) )
              => \/ last'.user = v /\ last'.op \in {"link", "verify"}
                 \/ /\ last'.op = "sweep"
                    /\ v \in DOMAIN pending /\ v \notin DOMAIN pending'
                    /\ (clock - pending[v].created) > TTL_SECONDS
          ]_vars
    /\ [](\A u \in Users, v \in Users :
            ( /\ u # v
              /\ \E t \in TaskIds : tasks[t] = [pc |-> "add_roles", user |-> u]
              /\ ops < MaxOps )
            => /\ ENABLED (Deliver /\ handle_evacom_link(v, TRUE, TRUE) /\ UNCHANGED <<wake, text, result>>)
               /\ FreeTasks # {} =>
                     \A c \in Inputs :
                        ENABLED (Deliver /\ handle_evacom_verify(v, c, TRUE, TRUE) /\ UNCHANGED <<wake, text, result>>))

\* a handler of v has replied while the grant call of another user is still
\* pending, and both sessions are stored
C16_Witness ==
    \E u \in Users, v \in Users :
        /\ u # v
        /\ \E t \in TaskIds : tasks[t] = [pc |-> "add_roles", user |-> u]
        /\ last.user = v /\ last.op \in {"link", "verify"} /\ last.msg # "guard"
        /\ u \in DOMAIN pending /\ v \in DOMAIN pending

\* C17 (as claimed): an exception raised inside a handler is caught at the
\* boundary of whichever entry point started it and answered with the
\* generic "internal error" reply: no handler ends with the exception
\* propagating out of its entry point.
C17_ExceptionCaughtAtEveryEntry ==
    [][ \A u \in Users :
          GrantFailedStep(u) => last' = Said("verify", u, "internal_error", <<>>)
      ]_vars

\* C18: extract_6digits(text) returns the digit characters of text, in
\* order, every other character discarded, when there are exactly six of
\* them, and the empty string when there are fewer or more; "B-123456" and
\* "1 2 3 4 5 6" give "123456", "12-34" gives "".
C18_ExtractSixDigits ==
    result.done =>
        /\ result.value = IF Len(DigitsOf(text)) = 6 THEN DigitsOf(text) ELSE <<>>
        /\ text \in {<<"B", "-", "1", "2", "3", "4", "5", "6">>,
                      <<"1", " ", "2", " ", "3", " ", "4", " ", "5", " ", "6">>}
              => result.value = <<"1", "2", "3", "4", "5", "6">>
        /\ text = <<"1", "2", "-", "3", "4">> => result.value = <<>>

\* the call has returned six digits of a text that also held another character
C18_Witness ==
    /\ result.done
    /\ Len(result.value) = 6
    /\ Len(text) = 7

\* C19 (as claimed): for one session at most one VERIFY issues a grant: while
\* a handler of u is suspended in its grant call or has not yet removed the
\* session, no other VERIFY of u passes the comparison and starts a second
\* grant call.
C19_OneGrantPerSession ==
    [][ \A u \in Users :
          GrantIssued(u) =>
              \A t \in TaskIds : tasks[t].pc = "idle" \/ tasks[t].user # u
      ]_vars

\* C20 (as claimed): when LINK has replied with an access key, the session
\* stored for that user is not expired and has attempts < MAX_ATTEMPTS, so
\* that a VERIFY with the right response code sent at once is accepted.
C20_KeyOnlyForVerifiableSession ==
    (last.op = "link" /\ last.msg \in {"key_new", "key_resumed"}) =>
        /\ last.user \in DOMAIN pending
        /\ (clock - pending[last.user].created) <= TTL_SECONDS
        /\ pending[last.user].attempts < MAX_ATTEMPTS
        /\ last.key = format_access(make_access_key(pending[last.user].nonce))

====
